---- MODULE Spec2Model ----
(***************************************************************************)
(* Model of the React client of Tein_Brouwer_System:                       *)
(*   - LocalRankingGrid.js : the ranking form (token fetch, quick and      *)
(*     advanced submission, history fetch, result rendering);              *)
(*   - App.js              : authentication state, logout window, routes.  *)
(* Asynchronous handlers are split at their awaits: one action runs the    *)
(* code from the event (or the settled promise) to the next await.         *)
(* React state updates are applied with the step that makes them, and the  *)
(* effects whose dependencies changed run in the same step.                *)
(***************************************************************************)
EXTENDS Integers, Sequences, FiniteSets, Bags, TLC

VARIABLES
  \* ---- LocalRankingGrid ----
  isAuthenticated,   \* prop isAuthenticated (App state)
  csrfToken,         \* useState(null)
  axiosCsrfHeader,   \* axios.defaults.headers.common['X-CSRFToken']
  formData,          \* useState({...})
  loading,           \* useState(false)
  results,           \* useState(null)
  history,           \* useState([])
  error,             \* useState('')
  activeTab,         \* useState('quick')
  location,          \* current route (navigate)
  mountTokenFetch,   \* the mount-time getCsrfToken() request is in flight
  sub,               \* the running handleQuickCheck / handleAdvancedCheck
  postReq,           \* the ranking POST in flight
  histInFlight,      \* bag of history GETs in flight (by their params)
  tokenFetchesUncached, \* token GETs issued so far while csrfToken was null
  detached,          \* bag of the requests of unmounted instances still in flight
  rendered,          \* what the component shows for results and history
  \* ---- App ----
  user,              \* useState(null)
  appLoading,        \* useState(true)
  logoutInProgress,  \* useState(false)
  localStorage,      \* window.localStorage: key -> value
  sessionStorage,    \* keys held by window.sessionStorage
  checkAuthInFlight, \* check-auth GETs in flight
  logoutCalls,       \* logout POSTs in flight
  logoutTimers,      \* bag of the pending setTimeout callbacks, by ms left
  loginInFlight,     \* login POSTs in flight (Login.handleSubmit)
  windowLeft,        \* ms left of the window of the last settled logout
  \* ---- SignupEmail / SignupPassword / PricingPage ----
  signup,            \* useState values of the signup component on screen
  signupReqs,        \* bag of the signup POSTs in flight
  plansInFlight      \* pricing GETs in flight, by whether their page is still mounted

lrgVars == <<isAuthenticated, csrfToken, axiosCsrfHeader, formData, loading,
             results, history, error, activeTab, location, mountTokenFetch,
             sub, postReq, histInFlight, tokenFetchesUncached, detached>>

appOnlyVars == <<user, appLoading, logoutInProgress, localStorage,
                 sessionStorage, checkAuthInFlight, logoutCalls, logoutTimers,
                 loginInFlight, windowLeft>>

lrgOnlyVars == <<csrfToken, axiosCsrfHeader, formData, loading, results,
                 history, error, activeTab, location, mountTokenFetch, sub,
                 postReq, histInFlight, tokenFetchesUncached, detached>>

signupVars == <<signup, signupReqs, plansInFlight>>

vars == <<lrgVars, rendered, appOnlyVars, signupVars>>

(***************************************************************************)
(* Bounds of the model.                                                    *)
(***************************************************************************)
MaxHistInFlight == 2   \* history GETs in flight at the same time
MaxTokenFetches == 2   \* token GETs issued while no token is cached

(***************************************************************************)
(* JavaScript values held by the form.  A string is a sequence of          *)
(* one-character strings; a number is fixed-point, counted in tenths       *)
(* (5.0 is 50, 0.1 is 1), which is the step of the radius input.           *)
(***************************************************************************)
JsStr(cs) == [t |-> "string", n |-> 0, s |-> cs]
JsNum(n) == [t |-> "number", n |-> n, s |-> <<>>]
JsNaN == [t |-> "NaN", n |-> 0, s |-> <<>>]
EmptyStr == JsStr(<<>>)

\* JavaScript truthiness: '' , 0 and NaN are falsy.
Truthy(v) ==
  CASE v.t = "string" -> v.s # <<>>
    [] v.t = "number" -> v.n # 0
    [] OTHER -> FALSE

NoToken == ""          \* null / undefined / '' : every falsy token value

NullValue == [t |-> "null"]

NoUser == "none"       \* user = null
NotRendered == [t |-> "not-rendered"]

Digits == {"0", "1", "2", "3", "4", "5", "6", "7", "8", "9"}

DigitVal(c) ==
  CASE c = "0" -> 0 [] c = "1" -> 1 [] c = "2" -> 2 [] c = "3" -> 3
    [] c = "4" -> 4 [] c = "5" -> 5 [] c = "6" -> 6 [] c = "7" -> 7
    [] c = "8" -> 8 [] c = "9" -> 9

RECURSIVE DigitsPrefix(_)
DigitsPrefix(cs) ==
  IF cs = <<>> \/ Head(cs) \notin Digits THEN <<>>
  ELSE <<Head(cs)>> \o DigitsPrefix(Tail(cs))

RECURSIVE DigitsToInt(_)
DigitsToInt(ds) ==
  IF ds = <<>> THEN 0
  ELSE DigitsToInt(SubSeq(ds, 1, Len(ds) - 1)) * 10 + DigitVal(ds[Len(ds)])

\* parseFloat(string): optional sign, digits, optional fraction; the longest
\* numeric prefix is used and NaN is returned when there is none.
ParseFloatStr(cs) ==
  LET signed == cs # <<>> /\ Head(cs) \in {"-", "+"}
      neg == cs # <<>> /\ Head(cs) = "-"
      body == IF signed THEN Tail(cs) ELSE cs
      ip == DigitsPrefix(body)
      rest == SubSeq(body, Len(ip) + 1, Len(body))
      fp == IF rest # <<>> /\ Head(rest) = "." THEN DigitsPrefix(Tail(rest))
            ELSE <<>>
      mag == DigitsToInt(ip) * 10 + (IF fp = <<>> THEN 0 ELSE DigitVal(fp[1]))
  IN IF ip = <<>> /\ fp = <<>> THEN JsNaN
     ELSE JsNum(IF neg THEN 0 - mag ELSE mag)

\* parseFloat(value): a number is converted to its string and parsed back.
ParseFloat(v) ==
  CASE v.t = "number" -> v
    [] v.t = "string" -> ParseFloatStr(v.s)
    [] OTHER -> JsNaN

\* parseInt(string): optional sign and digits; NaN when there is no digit.
ParseIntStr(cs) ==
  LET signed == cs # <<>> /\ Head(cs) \in {"-", "+"}
      neg == cs # <<>> /\ Head(cs) = "-"
      ip == DigitsPrefix(IF signed THEN Tail(cs) ELSE cs)
  IN IF ip = <<>> THEN JsNaN
     ELSE JsNum((IF neg THEN 0 - 1 ELSE 1) * DigitsToInt(ip) * 10)

\* parseInt(value): the fraction of a number is dropped (towards zero).
ParseInt(v) ==
  CASE v.t = "number" ->
         JsNum((IF v.n < 0 THEN 0 - (((0 - v.n) \div 10) * 10)
                ELSE (v.n \div 10) * 10))
    [] v.t = "string" -> ParseIntStr(v.s)
    [] OTHER -> JsNaN

(***************************************************************************)
(* LocalRankingGrid: initial state (useState initialisers).                *)
(***************************************************************************)
InitFormData ==
  [businessName |-> EmptyStr,
   businessLat |-> EmptyStr,
   businessLng |-> EmptyStr,
   gridSize |-> JsNum(30),
   radiusKm |-> JsNum(50),
   languageCode |-> JsStr(<<"e", "n">>),
   device |-> JsStr(<<"d", "e", "s", "k", "t", "o", "p">>),
   targetDomain |-> EmptyStr]

IdleSub == [pc |-> "idle", kind |-> "none", form |-> InitFormData]

NoRequest == [url |-> "none"]

QuickCheckUrl == "/api/ranking/quick-check/"
GridCheckUrl == "/api/ranking/grid-check/"

MsgRequired == "Please fill in all required fields"
MsgLogin == "Please log in first"
MsgToken == "Failed to get security token. Please try refreshing the page."


(***************************************************************************)
(* Server answers the model draws from.                                    *)
(***************************************************************************)
MountTokens == {"tokM"}             \* csrfToken of the mount-time response
OnDemandTokens == {"tokD"}          \* csrfToken of an on-demand response
CookieValues == {NoToken, "tokC"}   \* value of the csrftoken cookie, if any

PizzaPlace == <<"P", "i", "z", "z", "a">>
Cafe == <<"C", "a", "f", "e">>
ExampleCom == <<"e", "x", ".", "c", "o", "m">>

RankCell(id, rank, status) == [task_id |-> id, rank |-> rank, status |-> status]

\* Two RankResult payloads: a finished 2x2 grid and a snapshot with pending cells.
ResultComplete ==
  [business_name |-> PizzaPlace,
   grid_parameters |-> [size |-> 2],
   rank_map |-> << RankCell("t1", JsNum(10), "completed"),
                   RankCell("t2", JsNum(30), "completed"),
                   RankCell("t3", NullValue, "failed"),
                   RankCell("t4", JsNum(20), "completed") >>]

ResultPartial ==
  [business_name |-> PizzaPlace,
   grid_parameters |-> [size |-> 2],
   rank_map |-> << RankCell("t1", JsNum(10), "completed"),
                   RankCell("t2", NullValue, "pending"),
                   RankCell("t3", NullValue, "pending"),
                   RankCell("t4", NullValue, "failed") >>]

Payloads == {ResultComplete, ResultPartial}

\* A rejected request: err.response.data.message, err.response.data.error
\* and err.message ("" when the field is absent).
ErrShapes ==
  { [message |-> "Rate limited", error |-> "", errMessage |-> "Request failed with status code 429"],
    [message |-> "", error |-> "Bad coordinates", errMessage |-> "Request failed with status code 400"],
    [message |-> "", error |-> "", errMessage |-> "Network Error"] }

\* History responses: res.data.results for a request with parameter p.
HistoryEntry(p) == [business_name |-> p, grid_parameters |-> [size |-> 2],
                    rank_map |-> <<RankCell("h1", NullValue, "pending")>>]

HistoryResults(p) == { <<>>, <<HistoryEntry(p)>> }

(***************************************************************************)
(* handleInputChange (LocalRankingGrid.js 59-65).                          *)
(***************************************************************************)
InputValue(value, type) ==
  IF type = "number"
  THEN (LET parsed == ParseFloatStr(value)
        IN IF Truthy(parsed) THEN parsed ELSE EmptyStr)
  ELSE JsStr(value)

(***************************************************************************)
(* The two history effects (LocalRankingGrid.js 68-99).  Each returns the  *)
(* requests it issues, named by the business_name parameter they carry     *)
(* (EmptyStr: the request has no parameter).                               *)
(***************************************************************************)
FetchHistory(auth, fd) ==
  IF ~auth THEN <<>> ELSE <<fd.businessName>>

\* Variant of fetchHistoryByName without its guard on the empty name.
FetchHistoryByNameAnyName(auth, fd) ==
  IF ~auth THEN <<>> ELSE <<fd.businessName>>

FetchHistoryByName(auth, fd) ==
  IF ~auth \/ ~Truthy(fd.businessName) THEN <<>> ELSE <<fd.businessName>>

RECURSIVE SeqToBag(_)
SeqToBag(seq) ==
  IF seq = <<>> THEN EmptyBag
  ELSE SetToBag({Head(seq)}) (+) SeqToBag(Tail(seq))

\* Requests issued by the effects after a render in which the props/state
\* went from (auth, fd) to (auth2, fd2): an effect runs when one of its
\* dependencies changed.
EffectsOnChange(auth, fd, auth2, fd2) ==
  (IF auth2 # auth THEN FetchHistory(auth2, fd2) ELSE <<>>)
  \o (IF auth2 # auth \/ fd2.businessName # fd.businessName
      THEN FetchHistoryByName(auth2, fd2) ELSE <<>>)

Mounted == location = "/local-ranking-grid"

HandleInputChange(name, value, type) ==
  LET fd2 == [formData EXCEPT ![name] = InputValue(value, type)]
      issued == EffectsOnChange(isAuthenticated, formData, isAuthenticated, fd2)
  IN /\ Mounted
     /\ fd2 # formData
     /\ BagCardinality(histInFlight) + Len(issued) <= MaxHistInFlight
     /\ formData' = fd2
     /\ histInFlight' = histInFlight (+) SeqToBag(issued)
     /\ UNCHANGED <<detached, isAuthenticated, csrfToken, axiosCsrfHeader, loading,
                    results, history, error, activeTab, location,
                    mountTokenFetch, sub, postReq, tokenFetchesUncached,
                 rendered, appOnlyVars, signupVars>>

\* The parent re-renders the component with a new isAuthenticated prop.
AuthChange(auth2) ==
  LET issued == EffectsOnChange(isAuthenticated, formData, auth2, formData)
  IN /\ Mounted
     /\ auth2 # isAuthenticated
     /\ BagCardinality(histInFlight) + Len(issued) <= MaxHistInFlight
     /\ isAuthenticated' = auth2
     /\ histInFlight' = histInFlight (+) SeqToBag(issued)
     /\ UNCHANGED <<detached, csrfToken, axiosCsrfHeader, formData, loading, results,
                    history, error, activeTab, location, mountTokenFetch,
                    sub, postReq, tokenFetchesUncached,
                 rendered, appOnlyVars, signupVars>>

SetActiveTab(tab) ==
  /\ Mounted
  /\ tab # activeTab
  /\ activeTab' = tab
  /\ UNCHANGED <<detached, isAuthenticated, csrfToken, axiosCsrfHeader, formData,
                 loading, results, history, error, location, mountTokenFetch,
                 sub, postReq, histInFlight, tokenFetchesUncached,
                 rendered, appOnlyVars, signupVars>>

\* A history GET settles: setHistory(res.data?.results || []) or, on a
\* rejection, only a console message.  State updates of an unmounted
\* component are dropped.
HistoryResponse(p, ok, res) ==
  /\ BagIn(p, histInFlight)
  /\ histInFlight' = histInFlight (-) SetToBag({p})
  /\ history' = IF ok /\ Mounted THEN res ELSE history
  /\ UNCHANGED <<detached, isAuthenticated, csrfToken, axiosCsrfHeader, formData,
                 loading, results, error, activeTab, location,
                 mountTokenFetch, sub, postReq, tokenFetchesUncached,
                 rendered, appOnlyVars, signupVars>>


(***************************************************************************)
(* handleQuickCheck / handleAdvancedCheck (LocalRankingGrid.js 101-256).   *)
(***************************************************************************)
\* Variant of the validation that does not look at the longitude.
MissingRequiredNoLng(fd) ==
  \/ ~Truthy(fd.businessName)
  \/ ~Truthy(fd.businessLat)

\* The validation both handlers start with (104, 213).
MissingRequired(fd) ==
  \/ ~Truthy(fd.businessName)
  \/ ~Truthy(fd.businessLat)
  \/ ~Truthy(fd.businessLng)

\* A key whose value is undefined is left out of the JSON body.
WithTargetDomain(body, fd) ==
  IF Truthy(fd.targetDomain) THEN body @@ [target_domain |-> fd.targetDomain]
  ELSE body

AdvancedBody(fd) ==
  WithTargetDomain(
    [business_name |-> fd.businessName,
     business_lat |-> ParseFloat(fd.businessLat),
     business_lng |-> ParseFloat(fd.businessLng),
     grid_size |-> ParseInt(fd.gridSize),
     radius_km |-> ParseFloat(fd.radiusKm),
     language_code |-> fd.languageCode,
     device |-> fd.device], fd)

\* Variant of the quick body that sends the advanced fields as well.
QuickBodyWithAdvanced(fd) == AdvancedBody(fd)

QuickBody(fd) ==
  WithTargetDomain(
    [business_name |-> fd.businessName,
     business_lat |-> ParseFloat(fd.businessLat),
     business_lng |-> ParseFloat(fd.businessLng)], fd)

\* axios (App.js 13-15): with credentials, the value of the csrftoken
\* cookie, when the browser holds one, is written to X-CSRFToken; otherwise
\* the header is the one of the request config, else the common default.
SentCsrfHeader(explicit, default, cookie) ==
  IF cookie # NoToken THEN cookie
  ELSE IF explicit # NoToken THEN explicit
  ELSE default

\* The request of handleQuickCheck (161-183): tok is the csrfToken of the
\* render the handler was created in, default the axios default header at
\* the time the request is built.
QuickRequest(fd, tok, default, cookie) ==
  [url |-> QuickCheckUrl,
   body |-> QuickBody(fd),
   withCredentials |-> TRUE,
   xCsrfToken |->
     SentCsrfHeader(IF tok # NoToken THEN tok ELSE default, default, cookie)]

\* The request of handleAdvancedCheck (230-247): no X-CSRFToken in its config.
AdvancedRequest(fd, default, cookie) ==
  [url |-> GridCheckUrl,
   body |-> AdvancedBody(fd),
   withCredentials |-> TRUE,
   xCsrfToken |-> SentCsrfHeader(NoToken, default, cookie)]

\* Both submit buttons are disabled while loading (472, 622).
CanSubmit(tab) == Mounted /\ activeTab = tab /\ ~loading

\* Variant of the validation failure that also clears the results.
SubmitInvalidClearsResults(tab) ==
  /\ CanSubmit(tab)
  /\ MissingRequired(formData)
  /\ error' = MsgRequired
  /\ results' = NullValue
  /\ UNCHANGED <<detached, isAuthenticated, csrfToken, axiosCsrfHeader,
                 formData, loading, history, activeTab, location,
                 mountTokenFetch, sub, postReq, histInFlight,
                 tokenFetchesUncached, rendered, appOnlyVars, signupVars>>

\* 104-107 / 213-216: validation failure.
SubmitInvalid(tab) ==
  /\ CanSubmit(tab)
  /\ MissingRequired(formData)
  /\ error' = MsgRequired
  /\ UNCHANGED <<detached, isAuthenticated, csrfToken, axiosCsrfHeader, formData,
                 loading, results, history, activeTab, location,
                 mountTokenFetch, sub, postReq, histInFlight,
                 tokenFetchesUncached,
                 rendered, appOnlyVars, signupVars>>


\* Variant of the unauthenticated branch that reports the error and stays
\* on the page.
SubmitUnauthenticatedStays(tab) ==
  /\ CanSubmit(tab)
  /\ ~MissingRequired(formData)
  /\ ~isAuthenticated
  /\ loading' = FALSE
  /\ results' = NullValue
  /\ error' = MsgLogin
  /\ UNCHANGED <<detached, isAuthenticated, csrfToken, axiosCsrfHeader, formData,
                 history, activeTab, location, mountTokenFetch, sub, postReq,
                 histInFlight, tokenFetchesUncached,
                 rendered, appOnlyVars, signupVars>>

\* 109-131 / 218-228: a valid form of an unauthenticated user.  No await
\* is reached: the finally block resets loading in the same step.
SubmitUnauthenticated(tab) ==
  /\ CanSubmit(tab)
  /\ ~MissingRequired(formData)
  /\ ~isAuthenticated
  /\ loading' = FALSE
  /\ results' = NullValue
  /\ error' = MsgLogin
  /\ location' = "/login"
  /\ UNCHANGED <<detached, isAuthenticated, csrfToken, axiosCsrfHeader, formData,
                 history, activeTab, mountTokenFetch, sub, postReq,
                 histInFlight, tokenFetchesUncached,
                 rendered, appOnlyVars, signupVars>>

\* 109-183 with a cached token: the POST is issued in the same step.
QuickSubmitWithToken(cookie) ==
  /\ CanSubmit("quick")
  /\ ~MissingRequired(formData)
  /\ isAuthenticated
  /\ csrfToken # NoToken
  /\ loading' = TRUE
  /\ error' = ""
  /\ results' = NullValue
  /\ sub' = [pc |-> "awaitPost", kind |-> "quick", form |-> InitFormData]
  /\ postReq' = QuickRequest(formData, csrfToken, axiosCsrfHeader, cookie)
  /\ UNCHANGED <<detached, isAuthenticated, csrfToken, axiosCsrfHeader, formData,
                 history, activeTab, location, mountTokenFetch, histInFlight,
                 tokenFetchesUncached,
                 rendered, appOnlyVars, signupVars>>

\* 109-143 without a cached token: the token GET is issued and awaited.
QuickSubmitFetchToken ==
  /\ CanSubmit("quick")
  /\ ~MissingRequired(formData)
  /\ isAuthenticated
  /\ csrfToken = NoToken
  /\ tokenFetchesUncached < MaxTokenFetches
  /\ loading' = TRUE
  /\ error' = ""
  /\ results' = NullValue
  /\ sub' = [pc |-> "awaitToken", kind |-> "quick", form |-> formData]
  /\ tokenFetchesUncached' = tokenFetchesUncached + 1
  /\ UNCHANGED <<detached, isAuthenticated, csrfToken, axiosCsrfHeader, formData,
                 history, activeTab, location, mountTokenFetch, postReq,
                 histInFlight,
                 rendered, appOnlyVars, signupVars>>

\* 144-148, 161-183: the on-demand token arrived.  The handler still holds
\* the csrfToken of its own render (null), so the header comes from the
\* axios default it has just set; the body from the form of its own render.
QuickTokenArrived(token, cookie) ==
  /\ sub.pc = "awaitToken"
  /\ token # NoToken
  /\ csrfToken' = IF Mounted THEN token ELSE csrfToken
  /\ axiosCsrfHeader' = token
  /\ sub' = [pc |-> "awaitPost", kind |-> "quick", form |-> InitFormData]
  /\ postReq' = QuickRequest(sub.form, NoToken, token, cookie)
  /\ UNCHANGED <<detached, isAuthenticated, formData, loading, results, history, error,
                 activeTab, location, mountTokenFetch, histInFlight,
                 tokenFetchesUncached,
                 rendered, appOnlyVars, signupVars>>

\* Variant of the failed token fetch that falls through to the POST.
QuickTokenFailedFallsThrough ==
  /\ sub.pc = "awaitToken"
  /\ sub' = [pc |-> "awaitPost", kind |-> "quick", form |-> InitFormData]
  /\ postReq' = QuickRequest(sub.form, NoToken, axiosCsrfHeader, NoToken)
  /\ error' = MsgToken
  /\ UNCHANGED <<detached, isAuthenticated, csrfToken, axiosCsrfHeader, formData,
                 loading, results, history, activeTab, location,
                 mountTokenFetch, histInFlight, tokenFetchesUncached,
                 rendered, appOnlyVars, signupVars>>

\* 149-158, 205-207: the response carries no token, or the GET was rejected.
QuickTokenFailed ==
  /\ sub.pc = "awaitToken"
  /\ sub' = IdleSub
  /\ error' = IF Mounted THEN MsgToken ELSE error
  /\ loading' = IF Mounted THEN FALSE ELSE loading
  /\ UNCHANGED <<detached, isAuthenticated, csrfToken, axiosCsrfHeader, formData,
                 results, history, activeTab, location, mountTokenFetch,
                 postReq, histInFlight, tokenFetchesUncached,
                 rendered, appOnlyVars, signupVars>>

\* Variant of the advanced submission that keeps the previous results.
AdvancedSubmitKeepsResults(cookie) ==
  /\ CanSubmit("advanced")
  /\ ~MissingRequired(formData)
  /\ isAuthenticated
  /\ loading' = TRUE
  /\ error' = ""
  /\ sub' = [pc |-> "awaitPost", kind |-> "advanced", form |-> InitFormData]
  /\ postReq' = AdvancedRequest(formData, axiosCsrfHeader, cookie)
  /\ UNCHANGED <<detached, isAuthenticated, csrfToken, axiosCsrfHeader,
                 formData, results, history, activeTab, location,
                 mountTokenFetch, histInFlight, tokenFetchesUncached,
                 rendered, appOnlyVars, signupVars>>

\* 218-247: the advanced request is issued without looking at the token.
AdvancedSubmit(cookie) ==
  /\ CanSubmit("advanced")
  /\ ~MissingRequired(formData)
  /\ isAuthenticated
  /\ loading' = TRUE
  /\ error' = ""
  /\ results' = NullValue
  /\ sub' = [pc |-> "awaitPost", kind |-> "advanced", form |-> InitFormData]
  /\ postReq' = AdvancedRequest(formData, axiosCsrfHeader, cookie)
  /\ UNCHANGED <<detached, isAuthenticated, csrfToken, axiosCsrfHeader, formData,
                 history, activeTab, location, mountTokenFetch, histInFlight,
                 tokenFetchesUncached,
                 rendered, appOnlyVars, signupVars>>

\* Variant of the success handling that also shows the result as the
\* latest saved grid.
PostSucceededSavesHistory(data) ==
  /\ sub.pc = "awaitPost"
  /\ sub' = IdleSub
  /\ postReq' = NoRequest
  /\ results' = IF Mounted THEN data ELSE results
  /\ history' = IF Mounted THEN <<data>> ELSE history
  /\ loading' = IF Mounted THEN FALSE ELSE loading
  /\ UNCHANGED <<detached, isAuthenticated, csrfToken, axiosCsrfHeader, formData,
                 error, activeTab, location, mountTokenFetch,
                 histInFlight, tokenFetchesUncached,
                 rendered, appOnlyVars, signupVars>>

\* 185-186 / 249, then finally.
PostSucceeded(data) ==
  /\ sub.pc = "awaitPost"
  /\ sub' = IdleSub
  /\ postReq' = NoRequest
  /\ results' = IF Mounted THEN data ELSE results
  /\ loading' = IF Mounted THEN FALSE ELSE loading
  /\ UNCHANGED <<detached, isAuthenticated, csrfToken, axiosCsrfHeader, formData,
                 history, error, activeTab, location, mountTokenFetch,
                 histInFlight, tokenFetchesUncached,
                 rendered, appOnlyVars, signupVars>>

OrElse(a, b) == IF a # "" THEN a ELSE b

\* 200-204
QuickErrorText(err) ==
  "Error: " \o OrElse(err.message, OrElse(err.error,
                 OrElse(err.errMessage, "Failed to perform quick check")))

\* 251
AdvancedErrorText(err) == OrElse(err.message, "Failed to perform grid check")

\* Variant of the failure handling that sends the request again.
PostFailedRetries(err) ==
  /\ sub.pc = "awaitPost"
  /\ error' = IF ~Mounted THEN error
              ELSE IF sub.kind = "quick" THEN QuickErrorText(err)
              ELSE AdvancedErrorText(err)
  /\ UNCHANGED <<detached, isAuthenticated, csrfToken, axiosCsrfHeader, formData,
                 loading, results, history, activeTab, location,
                 mountTokenFetch, sub, postReq, histInFlight,
                 tokenFetchesUncached, rendered, appOnlyVars, signupVars>>

\* 187-207 / 250-255
PostFailed(err) ==
  /\ sub.pc = "awaitPost"
  /\ sub' = IdleSub
  /\ postReq' = NoRequest
  /\ error' = IF ~Mounted THEN error
              ELSE IF sub.kind = "quick" THEN QuickErrorText(err)
              ELSE AdvancedErrorText(err)
  /\ loading' = IF Mounted THEN FALSE ELSE loading
  /\ UNCHANGED <<detached, isAuthenticated, csrfToken, axiosCsrfHeader, formData,
                 results, history, activeTab, location, mountTokenFetch,
                 histInFlight, tokenFetchesUncached,
                 rendered, appOnlyVars, signupVars>>

\* Variant of the mount-time fetch that sets the axios default only.
MountTokenSettledNoState(token) ==
  /\ mountTokenFetch
  /\ mountTokenFetch' = FALSE
  /\ axiosCsrfHeader' = IF token # NoToken THEN token ELSE axiosCsrfHeader
  /\ UNCHANGED <<detached, isAuthenticated, csrfToken, formData, loading, results,
                 history, error, activeTab, location, sub, postReq,
                 histInFlight, tokenFetchesUncached, rendered, appOnlyVars, signupVars>>

\* 11-40: the mount-time getCsrfToken settles; token = NoToken stands for a
\* response without csrfToken and for a rejected request (both only log).
MountTokenSettled(token) ==
  /\ mountTokenFetch
  /\ mountTokenFetch' = FALSE
  /\ csrfToken' = IF token # NoToken /\ Mounted THEN token ELSE csrfToken
  /\ axiosCsrfHeader' = IF token # NoToken THEN token ELSE axiosCsrfHeader
  /\ UNCHANGED <<detached, isAuthenticated, formData, loading, results, history, error,
                 activeTab, location, sub, postReq, histInFlight,
                 tokenFetchesUncached,
                 rendered, appOnlyVars, signupVars>>

(***************************************************************************)
(* window.localStorage: a function from the keys held to their values.     *)
(* The strings of the signup pages are sequences of one-character strings. *)
(***************************************************************************)
EmptyStorage == [k \in {} |-> <<>>]

\* getItem: null (here the empty string, as falsy as null) for a missing key.
GetItem(store, key) == IF key \in DOMAIN store THEN store[key] ELSE <<>>

SetItem(store, key, value) ==
  [k \in DOMAIN store \cup {key} |-> IF k = key THEN value ELSE store[k]]

RemoveItem(store, key) == [k \in DOMAIN store \ {key} |-> store[k]]

\* useState initialisers of SignupEmail (part_002 59-60), SignupPassword
\* (5-8) and PricingPage (6-11); page names the signup page on screen.
NoSignupPage ==
  [page |-> "none", email |-> <<>>, password |-> <<>>,
   confirmPassword |-> <<>>, error |-> "", plans |-> <<>>,
   selectedPlan |-> "", loading |-> FALSE]

SignupIdle ==
  /\ signup = NoSignupPage
  /\ signupReqs = EmptyBag
  /\ plansInFlight = EmptyBag

\* The App variables while the model looks at the component alone.
AppIdle ==
  /\ user = NoUser
  /\ appLoading = FALSE
  /\ logoutInProgress = FALSE
  /\ localStorage = EmptyStorage
  /\ sessionStorage = {}
  /\ checkAuthInFlight = 0
  /\ logoutCalls = 0
  /\ logoutTimers = EmptyBag
  /\ loginInFlight = 0
  /\ windowLeft = 0
  /\ SignupIdle

(***************************************************************************)
(* The component after its first render and its mount effects: the token   *)
(* GET is in flight, and so is fetchHistory when the user is authenticated.*)
(***************************************************************************)
Init ==
  /\ isAuthenticated \in BOOLEAN
  /\ csrfToken = NoToken
  /\ axiosCsrfHeader = NoToken
  /\ formData = InitFormData
  /\ loading = FALSE
  /\ results = NullValue
  /\ history = <<>>
  /\ error = ""
  /\ activeTab = "quick"
  /\ location = "/local-ranking-grid"
  /\ mountTokenFetch = TRUE
  /\ sub = IdleSub
  /\ postReq = NoRequest
  /\ histInFlight = SeqToBag(FetchHistory(isAuthenticated, InitFormData)
                             \o FetchHistoryByName(isAuthenticated, InitFormData))
  /\ tokenFetchesUncached = 1
  /\ detached = EmptyBag
  /\ rendered = NotRendered
  /\ AppIdle

\* handleQuickCheck from the submit event to its first await or its return.
HandleQuickCheck ==
  \/ SubmitInvalid("quick")
  \/ SubmitUnauthenticated("quick")
  \/ \E c \in CookieValues : QuickSubmitWithToken(c)
  \/ QuickSubmitFetchToken

\* handleAdvancedCheck from the submit event to its await or its return.
HandleAdvancedCheck ==
  \/ SubmitInvalid("advanced")
  \/ SubmitUnauthenticated("advanced")
  \/ \E c \in CookieValues : AdvancedSubmit(c)

\* What the user types or selects in the model.
TextInputs == {<<>>, PizzaPlace}
NumberInputs == {<<>>, <<"0">>, <<"4", "0">>}

Edit ==
  \/ \E v \in TextInputs : HandleInputChange("businessName", v, "text")
  \/ \E v \in NumberInputs : HandleInputChange("businessLat", v, "number")
  \/ \E v \in NumberInputs : HandleInputChange("businessLng", v, "number")
  \/ \E v \in {<<>>, ExampleCom} : HandleInputChange("targetDomain", v, "text")
  \/ \E v \in {<<"3">>, <<"4">>} : HandleInputChange("gridSize", v, "select-one")

\* The submission pipeline, for either value of the isAuthenticated prop.
Next ==
  \/ Edit
  \/ \E tab \in {"quick", "advanced"} : SetActiveTab(tab)
  \/ HandleQuickCheck
  \/ HandleAdvancedCheck
  \/ \E tok \in OnDemandTokens, c \in CookieValues : QuickTokenArrived(tok, c)
  \/ QuickTokenFailed
  \/ \E d \in Payloads : PostSucceeded(d)
  \/ \E e \in ErrShapes : PostFailed(e)
  \/ \E tok \in MountTokens \cup {NoToken} : MountTokenSettled(tok)
  \/ \E p \in DOMAIN histInFlight : \E ok \in BOOLEAN :
       \E res \in HistoryResults(p) : HistoryResponse(p, ok, res)

Spec == Init /\ [][Next]_vars

\* The history effects under changes of the business name and of the
\* isAuthenticated prop.
NextHistory ==
  \/ \E v \in {<<>>, PizzaPlace, Cafe} : HandleInputChange("businessName", v, "text")
  \/ \E v \in NumberInputs : HandleInputChange("businessLat", v, "number")
  \/ \E b \in BOOLEAN : AuthChange(b)
  \/ \E p \in DOMAIN histInFlight : \E ok \in BOOLEAN :
       \E res \in HistoryResults(p) : HistoryResponse(p, ok, res)

SpecHistory == Init /\ [][NextHistory]_vars


(***************************************************************************)
(* The advanced form as the browser lets the user submit it: the form has  *)
(* no noValidate (484), so the submit button runs the constraint           *)
(* validation of its inputs before handleAdvancedCheck is called.          *)
(***************************************************************************)
GridSizeOptions == {<<"2">>, <<"3">>, <<"4">>, <<"5">>}   \* 559-562
RadiusInputs == {<<>>, <<"0">>, <<"0", ".", "1">>, <<"2", ".", "5">>, <<"5", "1">>}

RadiusMin == 1       \* min="0.1" (576), in tenths
RadiusMax == 500     \* max="50" (577), in tenths

\* Constraint validation: the required inputs (name, latitude, longitude)
\* must have a value; the radius input, which is not required, is valid
\* when it is empty or holds a number within min..max.
BrowserAccepts(fd) ==
  /\ fd.businessName # EmptyStr
  /\ fd.businessLat # EmptyStr
  /\ fd.businessLng # EmptyStr
  /\ \/ fd.radiusKm = EmptyStr
     \/ /\ fd.radiusKm.t = "number"
        /\ fd.radiusKm.n >= RadiusMin
        /\ fd.radiusKm.n <= RadiusMax

AdvancedFormSubmit ==
  /\ BrowserAccepts(formData)
  /\ \E c \in CookieValues : AdvancedSubmit(c)

InitAdvancedForm == Init /\ isAuthenticated

NextAdvancedForm ==
  \/ \E v \in TextInputs : HandleInputChange("businessName", v, "text")
  \/ \E v \in {<<>>, <<"4", "0">>} : HandleInputChange("businessLat", v, "number")
  \/ \E v \in {<<>>, <<"4", "0">>} : HandleInputChange("businessLng", v, "number")
  \/ \E v \in GridSizeOptions : HandleInputChange("gridSize", v, "select-one")
  \/ \E v \in RadiusInputs : HandleInputChange("radiusKm", v, "number")
  \/ \E tab \in {"quick", "advanced"} : SetActiveTab(tab)
  \/ AdvancedFormSubmit
  \/ \E d \in Payloads : PostSucceeded(d)
  \/ \E e \in ErrShapes : PostFailed(e)

\* Edits of the form followed by advanced submissions; the token and
\* history requests, which the body does not depend on, are left in flight.
SpecAdvancedForm == InitAdvancedForm /\ [][NextAdvancedForm]_vars


(***************************************************************************)
(* The component across navigation.  The Navbar of an authenticated user   *)
(* links to /dashboard and to /local-ranking-grid (part_002 15-20): the    *)
(* first unmounts the component, the second mounts a new instance whose    *)
(* state is that of the useState initialisers.  No request is cancelled on *)
(* unmount (the effects return no cleanup, the handlers hold no abort      *)
(* signal): the requests of the old instance stay in flight, and what      *)
(* their continuations set on the unmounted instance is dropped.           *)
(***************************************************************************)
MaxDetached == 2     \* requests of unmounted instances in flight

Detached(pc, kind, form, req) ==
  [pc |-> pc, kind |-> kind, form |-> form, req |-> req]

\* What the instance on screen leaves behind when another one is mounted:
\* its running handler and its mount-time token GET.  Its history GETs only
\* set the state of the unmounted instance and are not followed further.
LeftBehind ==
  (IF sub.pc = "idle" THEN EmptyBag
   ELSE SetToBag({Detached(sub.pc, sub.kind, sub.form, postReq)}))
  (+) (IF mountTokenFetch
       THEN SetToBag({Detached("mountToken", "none", InitFormData, NoRequest)})
       ELSE EmptyBag)

\* The Dashboard link of the Navbar (part_002 15-17).
LeavePage ==
  /\ Mounted
  /\ isAuthenticated
  /\ location' = "/dashboard"
  /\ UNCHANGED <<detached, isAuthenticated, csrfToken, axiosCsrfHeader,
                 formData, loading, results, history, error, activeTab,
                 mountTokenFetch, sub, postReq, histInFlight,
                 tokenFetchesUncached, rendered, appOnlyVars, signupVars>>

\* The Local Ranking Grid link of the Navbar (part_002 18-20): a new
\* instance is rendered (useState 5-9, 43-57) and its mount effects run
\* (11-40, 68-99).
MountPage ==
  /\ ~Mounted
  /\ isAuthenticated
  /\ ~logoutInProgress
  /\ BagCardinality(detached (+) LeftBehind) <= MaxDetached
  /\ location' = "/local-ranking-grid"
  /\ detached' = detached (+) LeftBehind
  /\ csrfToken' = NoToken
  /\ formData' = InitFormData
  /\ loading' = FALSE
  /\ results' = NullValue
  /\ history' = <<>>
  /\ error' = ""
  /\ activeTab' = "quick"
  /\ mountTokenFetch' = TRUE
  /\ sub' = IdleSub
  /\ postReq' = NoRequest
  /\ histInFlight' = SeqToBag(FetchHistory(isAuthenticated, InitFormData)
                              \o FetchHistoryByName(isAuthenticated, InitFormData))
  /\ tokenFetchesUncached' = 1
  /\ UNCHANGED <<isAuthenticated, axiosCsrfHeader, rendered, appOnlyVars,
                 signupVars>>

\* The variables of the instance on screen, which a request of an
\* unmounted instance cannot set.
instanceVars == <<isAuthenticated, csrfToken, formData, loading, results,
                  history, error, activeTab, location, mountTokenFetch, sub,
                  postReq, histInFlight, tokenFetchesUncached, rendered,
                  appOnlyVars, signupVars>>

\* 11-40 for an unmounted instance: only the axios default is set.
DetachedMountTokenSettled(d, token) ==
  /\ BagIn(d, detached)
  /\ d.pc = "mountToken"
  /\ detached' = detached (-) SetToBag({d})
  /\ axiosCsrfHeader' = IF token # NoToken THEN token ELSE axiosCsrfHeader
  /\ UNCHANGED instanceVars

\* 144-183 for an unmounted instance: the handler goes on and sends its POST.
DetachedTokenArrived(d, token, cookie) ==
  /\ BagIn(d, detached)
  /\ d.pc = "awaitToken"
  /\ token # NoToken
  /\ detached' = (detached (-) SetToBag({d}))
                 (+) SetToBag({Detached("awaitPost", d.kind, InitFormData,
                                        QuickRequest(d.form, NoToken, token, cookie))})
  /\ axiosCsrfHeader' = token
  /\ UNCHANGED instanceVars

\* The on-demand token GET of an unmounted instance failed (149-158), or
\* its ranking POST settled with either outcome (185-207, 249-255).
DetachedSettled(d) ==
  /\ BagIn(d, detached)
  /\ d.pc \in {"awaitToken", "awaitPost"}
  /\ detached' = detached (-) SetToBag({d})
  /\ UNCHANGED <<axiosCsrfHeader, instanceVars>>

InitRemount == Init /\ isAuthenticated

NextRemount ==
  \/ HandleInputChange("businessName", PizzaPlace, "text")
  \/ \E name \in {"businessLat", "businessLng"} :
       HandleInputChange(name, <<"4", "0">>, "number")
  \/ \E tab \in {"quick", "advanced"} : SetActiveTab(tab)
  \/ \E c \in CookieValues : QuickSubmitWithToken(c)
  \/ QuickSubmitFetchToken
  \/ \E c \in CookieValues : AdvancedSubmit(c)
  \/ \E tok \in OnDemandTokens, c \in CookieValues : QuickTokenArrived(tok, c)
  \/ QuickTokenFailed
  \/ \E d \in Payloads : PostSucceeded(d)
  \/ \E e \in ErrShapes : PostFailed(e)
  \/ \E tok \in MountTokens \cup {NoToken} : MountTokenSettled(tok)
  \/ LeavePage
  \/ MountPage
  \/ \E d \in DOMAIN detached, tok \in MountTokens \cup {NoToken} :
       DetachedMountTokenSettled(d, tok)
  \/ \E d \in DOMAIN detached, tok \in OnDemandTokens, c \in CookieValues :
       DetachedTokenArrived(d, tok, c)
  \/ \E d \in DOMAIN detached : DetachedSettled(d)

\* The form of an authenticated user who moves between the dashboard and
\* the ranking page while requests are in flight.  The history GETs, which
\* no submission depends on, are left in flight.
SpecRemount == InitRemount /\ [][NextRemount]_vars


(***************************************************************************)
(* App.js: authentication state and the logout window.                     *)
(***************************************************************************)
LogoutDelayMs == 1000      \* setTimeout(..., 1000)
TickMs == 500              \* granularity of the model's clock

MaxPendingLogouts == 2     \* logout calls in flight plus timers pending
MaxCheckAuthInFlight == 2  \* check-auth GETs in flight at the same time
MaxLoginInFlight == 1      \* login POSTs in flight at the same time

Users == {"u1"}
StorageKeys == {"signupEmail", "signupPassword"}

\* What the user types on the signup pages.
EmailNoDot == <<"a", "@", "b">>
EmailOk == <<"a", "@", "b", ".", "c">>
PasswordShort == <<"s", "e", "c", "r", "e">>
PasswordOk == <<"s", "e", "c", "r", "e", "t">>
PasswordOther == <<"S", "e", "c", "r", "e", "t">>

EmailInputs == {<<>>, EmailNoDot, EmailOk}
PasswordInputs == {<<>>, PasswordShort, PasswordOk, PasswordOther}

\* validateEmail (part_002 63-66): /^[^\s@]+@[^\s@]+\.[^\s@]+$/ , that is
\* no white space, one @ with a character before it, and after it a dot
\* that has a character on both sides.
ValidateEmail(email) ==
  \E i \in 1..Len(email) :
    /\ email[i] = "@"
    /\ i > 1
    /\ \A j \in 1..Len(email) : email[j] # " " /\ (j # i => email[j] # "@")
    /\ \E k \in (i + 2)..(Len(email) - 1) : email[k] = "."

\* Variant of validatePassword that accepts five characters.
ValidatePasswordFive(password) == Len(password) >= 5

\* validatePassword (SignupPassword.js 20-22)
ValidatePassword(password) == Len(password) >= 6

\* The contents localStorage can have when the page is loaded: what the
\* signup pages wrote in an earlier visit (part_002 82, SignupPassword.js 43).
Storages ==
  LET ofKeys(K) ==
        {st \in [K -> EmailInputs \cup PasswordInputs] :
           /\ "signupEmail" \in K =>
                (st["signupEmail"] \in EmailInputs /\ ValidateEmail(st["signupEmail"]))
           /\ "signupPassword" \in K =>
                (st["signupPassword"] \in PasswordInputs
                 /\ ValidatePassword(st["signupPassword"]))}
  IN UNION {ofKeys(K) : K \in SUBSET StorageKeys}

\* The component variables while the model looks at App alone.
LrgIdle ==
  /\ csrfToken = NoToken
  /\ axiosCsrfHeader = NoToken
  /\ formData = InitFormData
  /\ loading = FALSE
  /\ results = NullValue
  /\ history = <<>>
  /\ error = ""
  /\ activeTab = "quick"
  /\ mountTokenFetch = FALSE
  /\ sub = IdleSub
  /\ postReq = NoRequest
  /\ histInFlight = EmptyBag
  /\ tokenFetchesUncached = 0
  /\ detached = EmptyBag
  /\ rendered = NotRendered

(***************************************************************************)
(* The route table (App.js 107-175): what a path renders, as a function    *)
(* of isAuthenticated and logoutInProgress.                                *)
(***************************************************************************)
Paths == {"/", "/signup/email", "/signup/password", "/signup/pricing",
          "/login", "/dashboard", "/local-ranking-grid"}

SignupPaths == {"/signup/email", "/signup/password", "/signup/pricing"}

NavigateTo(path) == [kind |-> "navigate", to |-> path]
Component(name) == [kind |-> "component", name |-> name]

\* Variant of the route table whose protected routes do not look at
\* logoutInProgress.
RouteElementNoLogoutTest(path, auth, lip) ==
  CASE path = "/" ->
         IF auth THEN NavigateTo("/dashboard") ELSE NavigateTo("/login")
    [] path = "/signup/email" ->
         IF auth THEN NavigateTo("/dashboard") ELSE Component("SignupEmail")
    [] path = "/signup/password" ->
         IF auth THEN NavigateTo("/dashboard") ELSE Component("SignupPassword")
    [] path = "/signup/pricing" ->
         IF auth THEN NavigateTo("/dashboard") ELSE Component("PricingPage")
    [] path = "/login" ->
         IF auth THEN NavigateTo("/dashboard") ELSE Component("Login")
    [] path = "/dashboard" ->
         IF auth THEN Component("Dashboard") ELSE NavigateTo("/login")
    [] path = "/local-ranking-grid" ->
         IF auth THEN Component("LocalRankingGrid") ELSE NavigateTo("/login")

RouteElement(path, auth, lip) ==
  CASE path = "/" ->
         IF lip THEN NavigateTo("/login")
         ELSE IF auth THEN NavigateTo("/dashboard") ELSE NavigateTo("/login")
    [] path = "/signup/email" ->
         IF auth THEN NavigateTo("/dashboard") ELSE Component("SignupEmail")
    [] path = "/signup/password" ->
         IF auth THEN NavigateTo("/dashboard") ELSE Component("SignupPassword")
    [] path = "/signup/pricing" ->
         IF auth THEN NavigateTo("/dashboard") ELSE Component("PricingPage")
    [] path = "/login" ->
         IF auth THEN NavigateTo("/dashboard") ELSE Component("Login")
    [] path = "/dashboard" ->
         IF lip THEN NavigateTo("/login")
         ELSE IF auth THEN Component("Dashboard") ELSE NavigateTo("/login")
    [] path = "/local-ranking-grid" ->
         IF lip THEN NavigateTo("/login")
         ELSE IF auth THEN Component("LocalRankingGrid")
         ELSE NavigateTo("/login")

\* What App shows: the loading screen (95-101), else the element of the
\* current path.
AppView ==
  IF appLoading THEN Component("Loading")
  ELSE RouteElement(location, isAuthenticated, logoutInProgress)

\* App after its first render, the page having been loaded at any path:
\* the mount effect has called checkAuthStatus with logoutInProgress =
\* false, so one check-auth GET is in flight.
InitApp ==
  /\ LrgIdle
  /\ SignupIdle
  /\ location \in Paths
  /\ isAuthenticated = FALSE
  /\ user = NoUser
  /\ appLoading = TRUE
  /\ logoutInProgress = FALSE
  /\ localStorage \in Storages
  /\ sessionStorage \in SUBSET {"tab"}
  /\ checkAuthInFlight = 1
  /\ logoutCalls = 0
  /\ logoutTimers = EmptyBag
  /\ loginInFlight = 0
  /\ windowLeft = 0

\* checkAuthStatus settles (40-57): authenticated with a user, not
\* authenticated, or rejected (u = NoUser covers the last two).
CheckAuthSettled(u) ==
  /\ checkAuthInFlight > 0
  /\ checkAuthInFlight' = checkAuthInFlight - 1
  /\ isAuthenticated' = (u # NoUser)
  /\ user' = u
  /\ appLoading' = FALSE
  /\ UNCHANGED <<lrgOnlyVars, rendered, signupVars, logoutInProgress, localStorage,
                 sessionStorage, logoutCalls, logoutTimers, loginInFlight,
                 windowLeft>>

\* Login.handleSubmit (part_004 12-21): the login form is the element of
\* /login for a user who is not authenticated, once App has stopped loading.
LoginSubmit ==
  /\ ~appLoading
  /\ ~isAuthenticated
  /\ AppView = Component("Login")
  /\ loginInFlight < MaxLoginInFlight
  /\ loginInFlight' = loginInFlight + 1
  /\ UNCHANGED <<lrgVars, rendered, signupVars, user, appLoading, logoutInProgress,
                 localStorage, sessionStorage, checkAuthInFlight, logoutCalls,
                 logoutTimers, windowLeft>>

\* The login POST succeeded: onLogin(response.data.user) is handleLogin
\* (60-63), then Login navigates to /dashboard (part_004 23-24).
HandleLogin(u) ==
  /\ loginInFlight > 0
  /\ loginInFlight' = loginInFlight - 1
  /\ isAuthenticated' = TRUE
  /\ user' = u
  /\ location' = "/dashboard"
  /\ UNCHANGED <<detached, csrfToken, axiosCsrfHeader, formData, loading, results,
                 history, error, activeTab, mountTokenFetch, sub, postReq,
                 histInFlight, tokenFetchesUncached,
                 rendered, signupVars, appLoading, logoutInProgress,
                 localStorage, sessionStorage, checkAuthInFlight, logoutCalls,
                 logoutTimers, windowLeft>>

\* The login POST was rejected: nothing reaches App.
LoginRejected ==
  /\ loginInFlight > 0
  /\ loginInFlight' = loginInFlight - 1
  /\ UNCHANGED <<lrgVars, rendered, signupVars, user, appLoading, logoutInProgress,
                 localStorage, sessionStorage, checkAuthInFlight, logoutCalls,
                 logoutTimers, windowLeft>>

\* Variant of handleLogout that leaves the user in place.
HandleLogoutKeepsUser ==
  /\ ~appLoading
  /\ isAuthenticated
  /\ logoutCalls + BagCardinality(logoutTimers) < MaxPendingLogouts
  /\ logoutInProgress' = TRUE
  /\ isAuthenticated' = FALSE
  /\ appLoading' = FALSE
  /\ logoutCalls' = logoutCalls + 1
  /\ UNCHANGED <<lrgOnlyVars, rendered, signupVars, user, localStorage,
                 sessionStorage, checkAuthInFlight, logoutTimers,
                 loginInFlight, windowLeft>>

\* handleLogout up to its await (65-76).  The Logout button is rendered by
\* Navbar for an authenticated user.  When logoutInProgress changes, the
\* effect calls checkAuthStatus, which takes the skip branch (30-36).
HandleLogout ==
  /\ ~appLoading
  /\ isAuthenticated
  /\ logoutCalls + BagCardinality(logoutTimers) < MaxPendingLogouts
  /\ logoutInProgress' = TRUE
  /\ isAuthenticated' = FALSE
  /\ user' = NoUser
  /\ appLoading' = FALSE
  /\ logoutCalls' = logoutCalls + 1
  /\ UNCHANGED <<lrgOnlyVars, rendered, signupVars, localStorage, sessionStorage,
                 checkAuthInFlight, logoutTimers, loginInFlight, windowLeft>>

\* handleLogout after its await (77-92), whether the POST succeeded or not.
LogoutSettled(ok) ==
  /\ logoutCalls > 0
  /\ logoutCalls' = logoutCalls - 1
  /\ localStorage' = EmptyStorage
  /\ sessionStorage' = {}
  /\ logoutTimers' = logoutTimers (+) SetToBag({LogoutDelayMs})
  /\ windowLeft' = LogoutDelayMs
  /\ UNCHANGED <<lrgVars, rendered, signupVars, user, appLoading, logoutInProgress,
                 checkAuthInFlight, loginInFlight>>

\* Time passes: every pending timer and the window get TickMs closer.
Less(ms) == IF ms > TickMs THEN ms - TickMs ELSE 0

RECURSIVE TickBag(_)
TickBag(b) ==
  IF b = EmptyBag THEN EmptyBag
  ELSE LET ms == CHOOSE x \in DOMAIN b : TRUE
       IN [y \in {Less(ms)} |-> b[ms]]
          (+) TickBag([x \in DOMAIN b \ {ms} |-> b[x]])

Tick ==
  /\ \E ms \in DOMAIN logoutTimers : ms > 0
  /\ logoutTimers' = TickBag(logoutTimers)
  /\ windowLeft' = Less(windowLeft)
  /\ UNCHANGED <<lrgVars, rendered, signupVars, user, appLoading, logoutInProgress,
                 localStorage, sessionStorage, checkAuthInFlight, logoutCalls,
                 loginInFlight>>

\* The timeout callback (89-92) runs: setLogoutInProgress(false).  When that
\* changes the state, the effect (23-25) calls checkAuthStatus, which now
\* issues the check-auth GET (38-40).
LogoutTimerFired ==
  /\ BagIn(0, logoutTimers)
  /\ logoutInProgress => checkAuthInFlight < MaxCheckAuthInFlight
  /\ logoutTimers' = logoutTimers (-) SetToBag({0})
  /\ logoutInProgress' = FALSE
  /\ checkAuthInFlight' = IF logoutInProgress THEN checkAuthInFlight + 1
                          ELSE checkAuthInFlight
  /\ UNCHANGED <<lrgVars, rendered, signupVars, user, appLoading, localStorage,
                 sessionStorage, logoutCalls, loginInFlight, windowLeft>>

\* A <Navigate> element is rendered: its effect replaces the location.
RouteRedirect ==
  /\ AppView.kind = "navigate"
  /\ location' = AppView.to
  /\ UNCHANGED <<detached, isAuthenticated, csrfToken, axiosCsrfHeader, formData,
                 loading, results, history, error, activeTab, mountTokenFetch,
                 sub, postReq, histInFlight, tokenFetchesUncached,
                 rendered, appOnlyVars, signupVars>>

\* The user follows a link (Navbar part_002 9-45, Login part_004 102) or
\* uses the back and forward buttons of the browser.
GoTo(path) ==
  /\ ~appLoading
  /\ path # location
  /\ location' = path
  /\ UNCHANGED <<detached, isAuthenticated, csrfToken, axiosCsrfHeader, formData,
                 loading, results, history, error, activeTab, mountTokenFetch,
                 sub, postReq, histInFlight, tokenFetchesUncached,
                 rendered, appOnlyVars, signupVars>>

NextApp ==
  \/ \E path \in Paths : GoTo(path)
  \/ RouteRedirect
  \/ \E u \in Users \cup {NoUser} : CheckAuthSettled(u)
  \/ LoginSubmit
  \/ \E u \in Users : HandleLogin(u)
  \/ LoginRejected
  \/ HandleLogout
  \/ \E ok \in BOOLEAN : LogoutSettled(ok)
  \/ Tick
  \/ LogoutTimerFired

SpecApp == InitApp /\ [][NextApp]_vars


(***************************************************************************)
(* The signup pages: SignupEmail (part_002 55-129), SignupPassword.js and  *)
(* PricingPage.js.  A page is mounted when its route is rendered; its      *)
(* mount effect runs in the same step.  A request outlives the page that   *)
(* issued it: it is then marked as not live, and the state updates of its  *)
(* continuation are dropped.                                               *)
(***************************************************************************)
MaxSignupInFlight == 1   \* signup POSTs in flight at the same time
MaxPlansInFlight == 1    \* pricing GETs in flight at the same time

MsgEmailRequired == "Email is required"
MsgEmailInvalid == "Please enter a valid email address"
MsgPasswordRequired == "Password is required"
MsgPasswordShort == "Password must be at least 6 characters long"
MsgPasswordMismatch == "Passwords do not match"
MsgPlansFailed == "Failed to load pricing plans"
MsgSignupFailed == "Signup failed. Please try again."

SignupUrl == "/api/accounts/signup/"

\* response.data.plans of the pricing GET, by plan id.
PlanLists == {<<>>, <<"basic", "pro">>}
PlanIds == {"basic", "pro"}

\* Variant of the mount effects in which PricingPage only asks for the
\* stored email.
MountSignupPageEmailOnly(path, store) ==
  LET storedEmail == GetItem(store, "signupEmail")
      storedPassword == GetItem(store, "signupPassword")
  IN IF path = "/signup/password" /\ storedEmail # <<>>
     THEN [location |-> path,
           signup |-> [NoSignupPage EXCEPT !.page = "password",
                                           !.email = storedEmail]]
     ELSE IF path = "/signup/pricing" /\ storedEmail # <<>>
     THEN [location |-> path,
           signup |-> [NoSignupPage EXCEPT !.page = "pricing",
                                           !.email = storedEmail,
                                           !.password = storedPassword]]
     ELSE IF path \in SignupPaths
     THEN [location |-> "/signup/email",
           signup |-> [NoSignupPage EXCEPT !.page = "email"]]
     ELSE [location |-> path, signup |-> NoSignupPage]

\* The path and the page on screen once path has been rendered to a user
\* who is not authenticated and the mount effect of its page has run:
\* SignupPassword (11-18) and PricingPage (14-26) navigate to /signup/email
\* when a stored value they need is missing, and copy the stored values to
\* their state otherwise.
MountSignupPage(path, store) ==
  LET storedEmail == GetItem(store, "signupEmail")
      storedPassword == GetItem(store, "signupPassword")
  IN IF path = "/signup/password" /\ storedEmail # <<>>
     THEN [location |-> path,
           signup |-> [NoSignupPage EXCEPT !.page = "password",
                                           !.email = storedEmail]]
     ELSE IF path = "/signup/pricing" /\ storedEmail # <<>> /\ storedPassword # <<>>
     THEN [location |-> path,
           signup |-> [NoSignupPage EXCEPT !.page = "pricing",
                                           !.email = storedEmail,
                                           !.password = storedPassword]]
     ELSE IF path \in SignupPaths
     THEN [location |-> "/signup/email",
           signup |-> [NoSignupPage EXCEPT !.page = "email"]]
     ELSE [location |-> path, signup |-> NoSignupPage]

\* The requests in flight once the page that issued them is unmounted.
StaleReqs(reqs) ==
  LET stale(r) == [r EXCEPT !.live = FALSE]
      count(r) == IF r \in DOMAIN reqs THEN reqs[r] ELSE 0
  IN [x \in {stale(r) : r \in DOMAIN reqs} |->
        count(x) + count([x EXCEPT !.live = TRUE])]

StalePlans(gets) ==
  IF gets = EmptyBag THEN EmptyBag
  ELSE [x \in {FALSE} |-> BagCardinality(gets)]

\* The pricing GETs in flight after page has been mounted: fetchPricingPlans
\* (25, 28-30) is called by the mount effect of PricingPage.
PlansAfterMount(page) ==
  StalePlans(plansInFlight)
  (+) (IF page = "pricing" THEN SetToBag({TRUE}) ELSE EmptyBag)

\* The lrg and App variables the signup pages do not touch.
signupFrame == <<detached, csrfToken, axiosCsrfHeader, formData, loading, results,
                 history, error, activeTab, mountTokenFetch, sub, postReq,
                 histInFlight, tokenFetchesUncached, rendered, appLoading,
                 logoutInProgress, sessionStorage, checkAuthInFlight,
                 logoutCalls, logoutTimers, loginInFlight, windowLeft>>

\* navigate(path), a link or the back and forward buttons of the browser,
\* while a signup route renders its page (the user is not authenticated).
OpenPage(path) ==
  LET m == MountSignupPage(path, localStorage)
  IN /\ ~appLoading
     /\ ~isAuthenticated
     /\ path # location
     /\ m.signup.page = "pricing" =>
          BagCardinality(plansInFlight) < MaxPlansInFlight
     /\ location' = m.location
     /\ signup' = m.signup
     /\ signupReqs' = StaleReqs(signupReqs)
     /\ plansInFlight' = PlansAfterMount(m.signup.page)
     /\ UNCHANGED <<signupFrame, isAuthenticated, user, localStorage>>

\* onChange of the inputs (part_002 106, SignupPassword.js 71, 87).
SetSignupField(page, field, value) ==
  /\ signup.page = page
  /\ signup[field] # value
  /\ signup' = [signup EXCEPT ![field] = value]
  /\ UNCHANGED <<signupFrame, isAuthenticated, user, localStorage, location,
                 signupReqs, plansInFlight>>

\* A signup page shows an error and stays where it is.
SignupRejects(msg) ==
  /\ signup' = [signup EXCEPT !.error = msg]
  /\ UNCHANGED <<signupFrame, isAuthenticated, user, localStorage, location,
                 signupReqs, plansInFlight>>

\* A signup page stores a value and navigates to the next page.
SignupStoresAndMoves(key, value, path) ==
  LET store == SetItem(localStorage, key, value)
      m == MountSignupPage(path, store)
  IN /\ m.signup.page = "pricing" =>
          BagCardinality(plansInFlight) < MaxPlansInFlight
     /\ localStorage' = store
     /\ location' = m.location
     /\ signup' = m.signup
     /\ signupReqs' = StaleReqs(signupReqs)
     /\ plansInFlight' = PlansAfterMount(m.signup.page)
     /\ UNCHANGED <<signupFrame, isAuthenticated, user>>

\* SignupEmail.handleSubmit (part_002 68-84)
SignupEmailSubmit ==
  /\ signup.page = "email"
  /\ IF signup.email = <<>> THEN SignupRejects(MsgEmailRequired)
     ELSE IF ~ValidateEmail(signup.email) THEN SignupRejects(MsgEmailInvalid)
     ELSE SignupStoresAndMoves("signupEmail", signup.email, "/signup/password")

\* SignupPassword.handleSubmit (24-45)
SignupPasswordSubmit ==
  /\ signup.page = "password"
  /\ IF signup.password = <<>> THEN SignupRejects(MsgPasswordRequired)
     ELSE IF ~ValidatePassword(signup.password)
     THEN SignupRejects(MsgPasswordShort)
     ELSE IF signup.password # signup.confirmPassword
     THEN SignupRejects(MsgPasswordMismatch)
     ELSE SignupStoresAndMoves("signupPassword", signup.password,
                               "/signup/pricing")

\* handleBack of SignupPassword (47-49) and of PricingPage (96-98, the
\* button is disabled while loading).
HandleBack ==
  \/ signup.page = "password" /\ OpenPage("/signup/email")
  \/ signup.page = "pricing" /\ ~signup.loading /\ OpenPage("/signup/password")

RECURSIVE SeqRange(_)
SeqRange(seq) ==
  IF seq = <<>> THEN {} ELSE {Head(seq)} \cup SeqRange(Tail(seq))

\* fetchPricingPlans settles (28-39): setPlans and setSelectedPlan of the
\* first plan, or setError when the GET was rejected.
PlansSettled(live, ok, plans) ==
  /\ BagIn(live, plansInFlight)
  /\ plansInFlight' = plansInFlight (-) SetToBag({live})
  /\ signup' =
       IF ~live THEN signup
       ELSE IF ~ok THEN [signup EXCEPT !.error = MsgPlansFailed]
       ELSE [signup EXCEPT !.plans = plans,
                           !.selectedPlan = IF Len(plans) > 0 THEN plans[1]
                                            ELSE signup.selectedPlan]
  /\ UNCHANGED <<signupFrame, isAuthenticated, user, localStorage, location,
                 signupReqs>>

\* handlePlanSelect (41-43): a click on the card of a plan.
HandlePlanSelect(planId) ==
  /\ signup.page = "pricing"
  /\ planId \in SeqRange(signup.plans)
  /\ planId # signup.selectedPlan
  /\ signup' = [signup EXCEPT !.selectedPlan = planId]
  /\ UNCHANGED <<signupFrame, isAuthenticated, user, localStorage, location,
                 signupReqs, plansInFlight>>

\* The signup POST of both handlers (51-55, 78-82).
SignupRequest(planId) ==
  [url |-> SignupUrl,
   body |-> [email |-> signup.email, password |-> signup.password,
             pricing_plan |-> planId],
   live |-> TRUE]

\* handleQuickSignup up to its await (45-55): the button of a plan card,
\* disabled while loading.
HandleQuickSignup(planId) ==
  /\ signup.page = "pricing"
  /\ ~signup.loading
  /\ planId \in SeqRange(signup.plans)
  /\ BagCardinality(signupReqs) < MaxSignupInFlight
  /\ signup' = [signup EXCEPT !.selectedPlan = planId, !.loading = TRUE,
                              !.error = ""]
  /\ signupReqs' = signupReqs (+) SetToBag({SignupRequest(planId)})
  /\ UNCHANGED <<signupFrame, isAuthenticated, user, localStorage, location,
                 plansInFlight>>

\* handleSignup up to its await (68-82): the button is disabled while
\* loading or while no plan is selected.
HandleSignup ==
  /\ signup.page = "pricing"
  /\ ~signup.loading
  /\ signup.selectedPlan # ""
  /\ BagCardinality(signupReqs) < MaxSignupInFlight
  /\ signup' = [signup EXCEPT !.loading = TRUE, !.error = ""]
  /\ signupReqs' = signupReqs (+) SetToBag({SignupRequest(signup.selectedPlan)})
  /\ UNCHANGED <<signupFrame, isAuthenticated, user, localStorage, location,
                 plansInFlight>>

\* Variant of the success handling that leaves the stored values in place.
SignupSucceededKeepsStorage(req, u) ==
  /\ BagIn(req, signupReqs)
  /\ signupReqs' = StaleReqs(signupReqs (-) SetToBag({req}))
  /\ isAuthenticated' = TRUE
  /\ user' = u
  /\ location' = "/dashboard"
  /\ signup' = NoSignupPage
  /\ plansInFlight' = StalePlans(plansInFlight)
  /\ UNCHANGED <<signupFrame, localStorage>>

\* The signup POST succeeded (57-61, 84-88): the stored values are removed,
\* onSignupComplete is handleLogin (App.js 60-63), then navigate.  The
\* signup route of an authenticated user no longer renders its page.
SignupSucceeded(req, u) ==
  /\ BagIn(req, signupReqs)
  /\ signupReqs' = StaleReqs(signupReqs (-) SetToBag({req}))
  /\ localStorage' = RemoveItem(RemoveItem(localStorage, "signupEmail"),
                                "signupPassword")
  /\ isAuthenticated' = TRUE
  /\ user' = u
  /\ location' = "/dashboard"
  /\ signup' = NoSignupPage
  /\ plansInFlight' = StalePlans(plansInFlight)
  /\ UNCHANGED signupFrame

\* The signup POST was rejected (62-65, 89-93).
SignupFailed(req, err) ==
  /\ BagIn(req, signupReqs)
  /\ signupReqs' = signupReqs (-) SetToBag({req})
  /\ signup' = IF req.live
               THEN [signup EXCEPT !.error = OrElse(err.error, MsgSignupFailed),
                                   !.loading = FALSE]
               ELSE signup
  /\ UNCHANGED <<signupFrame, isAuthenticated, user, localStorage, location,
                 plansInFlight>>

\* A signup route has been rendered for a user who is not authenticated:
\* after a page load, or after handleLogout (App.js 65-76) while its logout
\* call is still in flight.
InitSignup ==
  /\ LrgIdle
  /\ isAuthenticated = FALSE
  /\ user = NoUser
  /\ appLoading = FALSE
  /\ logoutInProgress \in BOOLEAN
  /\ sessionStorage = {}
  /\ checkAuthInFlight = 0
  /\ logoutCalls = IF logoutInProgress THEN 1 ELSE 0
  /\ logoutTimers = EmptyBag
  /\ loginInFlight = 0
  /\ windowLeft = 0
  /\ localStorage \in Storages
  /\ signupReqs = EmptyBag
  /\ \E path \in SignupPaths :
       LET m == MountSignupPage(path, localStorage)
       IN /\ location = m.location
          /\ signup = m.signup
          /\ plansInFlight = IF m.signup.page = "pricing" THEN SetToBag({TRUE})
                             ELSE EmptyBag

NextSignup ==
  \/ \E path \in SignupPaths \cup {"/login"} : OpenPage(path)
  \/ \E v \in EmailInputs : SetSignupField("email", "email", v)
  \/ \E v \in PasswordInputs : SetSignupField("password", "password", v)
  \/ \E v \in PasswordInputs : SetSignupField("password", "confirmPassword", v)
  \/ SignupEmailSubmit
  \/ SignupPasswordSubmit
  \/ HandleBack
  \/ \E live \in BOOLEAN, plans \in PlanLists : PlansSettled(live, TRUE, plans)
  \/ \E live \in BOOLEAN : PlansSettled(live, FALSE, <<>>)
  \/ \E planId \in PlanIds : HandlePlanSelect(planId)
  \/ \E planId \in PlanIds : HandleQuickSignup(planId)
  \/ HandleSignup
  \/ \E req \in DOMAIN signupReqs, u \in Users : SignupSucceeded(req, u)
  \/ \E req \in DOMAIN signupReqs, e \in ErrShapes : SignupFailed(req, e)
  \/ \E ok \in BOOLEAN : LogoutSettled(ok)

\* The signup pages, with the storage clearing of a logout that may still
\* be settling; the auth check after the logout window is part of SpecApp.
SpecSignup == InitSignup /\ [][NextSignup]_vars

(***************************************************************************)
(* Result Presenter: renderResults (258-375) and the history section       *)
(* (649-675), as functions of the results and the history held.            *)
(***************************************************************************)
NoView == [t |-> "nothing"]
Placeholder == JsStr(<<"U+2014">>)   \* the one-character string holding an em dash

\* Variant of the cell that prints a missing rank as an empty text.
RenderCellBlankRank(cell) ==
  [background |-> IF Truthy(cell.rank) THEN "#eef2ff"
                  ELSE IF cell.status = "failed" THEN "#fee2e2"
                  ELSE "#f9fafb",
   rankText |-> IF cell.rank = NullValue THEN EmptyStr ELSE cell.rank,
   statusText |-> cell.status]

\* One rank cell (312-321 and 660-669, the same markup).
RenderCell(cell) ==
  [background |-> IF Truthy(cell.rank) THEN "#eef2ff"
                  ELSE IF cell.status = "failed" THEN "#fee2e2"
                  ELSE "#f9fafb",
   rankText |-> IF cell.rank = NullValue THEN Placeholder ELSE cell.rank,
   statusText |-> cell.status]

\* gridTemplateColumns: repeat(grid_parameters?.size || 3, 1fr)
GridColumns(r) ==
  IF "grid_parameters" \in DOMAIN r /\ Truthy(r.grid_parameters.size)
  THEN r.grid_parameters.size
  ELSE JsNum(30)

CellsOf(rankMap) == [i \in 1..Len(rankMap) |-> RenderCell(rankMap[i])]

\* Variant of the rank grid that lays out size x size cells, filling the
\* cells rank_map has no entry for with pending ones.
RankGridSquare(r) ==
  IF "rank_map" \in DOMAIN r /\ Len(r.rank_map) > 0
  THEN LET side == GridColumns(r).n \div 10
       IN [columns |-> GridColumns(r),
           cells |-> [i \in 1..(side * side) |->
                        IF i <= Len(r.rank_map) THEN RenderCell(r.rank_map[i])
                        ELSE RenderCell(RankCell("t", NullValue, "pending"))]]
  ELSE NoView

\* The rank grid of renderResults: shown when rank_map has an entry, one
\* cell for each entry of rank_map.
RankGrid(r) ==
  IF "rank_map" \in DOMAIN r /\ Len(r.rank_map) > 0
  THEN [columns |-> GridColumns(r), cells |-> CellsOf(r.rank_map)]
  ELSE NoView

RenderResults(r) ==
  IF r = NullValue THEN NoView ELSE [grid |-> RankGrid(r)]

\* The "Latest Saved Grid" section: the first entry of history only.
RenderHistory(h) ==
  IF Len(h) > 0
  THEN [grid |-> [columns |-> GridColumns(h[1]),
                  cells |-> IF "rank_map" \in DOMAIN h[1]
                            THEN CellsOf(h[1].rank_map) ELSE <<>>]]
  ELSE NoView

MaxRankMap == 3      \* entries of a rank_map the model draws

CellKinds ==
  { RankCell("t", NullValue, "pending"),
    RankCell("t", NullValue, "failed"),
    RankCell("t", JsNum(0), "completed"),
    RankCell("t", JsNum(10), "completed") }

RECURSIVE SeqsUpTo(_, _)
SeqsUpTo(S, n) ==
  IF n = 0 THEN {<<>>}
  ELSE LET shorter == SeqsUpTo(S, n - 1)
       IN shorter \cup {Append(q, x) : q \in {c \in shorter : Len(c) = n - 1}, x \in S}

GridSizes == {JsNum(0), JsNum(20), JsNum(40)}

\* RankResult-like records a server may answer with.
RankResults ==
  LET maps == SeqsUpTo(CellKinds, MaxRankMap)
  IN {[business_name |-> PizzaPlace]}
     \cup {[business_name |-> PizzaPlace, rank_map |-> m] : m \in maps}
     \cup {[business_name |-> PizzaPlace, grid_parameters |-> [size |-> g],
            rank_map |-> m] : g \in GridSizes, m \in maps}

InitRender ==
  /\ \E r \in RankResults :
       \/ results = r /\ history = <<>>
       \/ results = NullValue /\ history = <<r>>
       \/ results = r /\ history = <<r, ResultPartial>>
  /\ isAuthenticated = TRUE
  /\ csrfToken = NoToken
  /\ axiosCsrfHeader = NoToken
  /\ formData = InitFormData
  /\ loading = FALSE
  /\ error = ""
  /\ activeTab = "quick"
  /\ location = "/local-ranking-grid"
  /\ mountTokenFetch = FALSE
  /\ sub = IdleSub
  /\ postReq = NoRequest
  /\ histInFlight = EmptyBag
  /\ tokenFetchesUncached = 0
  /\ detached = EmptyBag
  /\ rendered = NotRendered
  /\ AppIdle

\* The component renders what it holds.
Render ==
  /\ rendered = NotRendered
  /\ rendered' = [live |-> RenderResults(results), saved |-> RenderHistory(history)]
  /\ UNCHANGED <<lrgVars, appOnlyVars, signupVars>>

NextRender == Render

SpecRender == InitRender /\ [][NextRender]_vars


(***************************************************************************)
(* Properties.                                                             *)
(***************************************************************************)
\* A step in which one of the two submit handlers starts.
SubmitStep == HandleQuickCheck \/ HandleAdvancedCheck

\* A step that issues the on-demand token GET / the ranking POST / a
\* history GET.
TokenFetchIssued == sub.pc # "awaitToken" /\ sub'.pc = "awaitToken"
PostIssued == postReq = NoRequest /\ postReq' # NoRequest
HistoryFetchIssued == BagCardinality(histInFlight') > BagCardinality(histInFlight)

HasEmptyRequiredField ==
  \/ formData.businessName = EmptyStr
  \/ formData.businessLat = EmptyStr
  \/ formData.businessLng = EmptyStr

\* C1: a submission (quick or advanced) of a form whose business name,
\* latitude or longitude is empty issues no request at all (no token GET,
\* no ranking POST, no history GET) and sets a non-empty error message,
\* the validation message.
C1_EmptyFieldNoRequest ==
  [][ (SubmitStep /\ HasEmptyRequiredField) =>
        /\ ~TokenFetchIssued
        /\ ~PostIssued
        /\ ~HistoryFetchIssued
        /\ sub' = sub /\ postReq' = postReq /\ mountTokenFetch' = mountTokenFetch
        /\ error' # "" /\ error' = MsgRequired ]_vars

C1_Witness ==
  /\ error = MsgRequired
  /\ activeTab = "advanced"
  /\ formData.businessName # EmptyStr
  /\ formData.businessLat # EmptyStr
  /\ formData.businessLng = EmptyStr
  /\ sub.pc = "idle" /\ postReq = NoRequest

\* The body the claim describes for a quick check of the form fd.
IsQuickBodyOf(body, fd) ==
  /\ DOMAIN body = {"business_name", "business_lat", "business_lng"}
                   \cup (IF fd.targetDomain = EmptyStr THEN {} ELSE {"target_domain"})
  /\ body.business_name = fd.businessName
  /\ body.business_lat = fd.businessLat
  /\ body.business_lng = fd.businessLng
  /\ fd.targetDomain # EmptyStr => body.target_domain = fd.targetDomain

ValidAuthenticatedQuickSubmit ==
  /\ HandleQuickCheck
  /\ ~HasEmptyRequiredField
  /\ isAuthenticated

\* C2 as stated: every valid quick submission of an authenticated user
\* issues exactly one POST to the quick-check endpoint: a quick submission
\* never settles without having sent its POST.
C2_ExactlyOnePost ==
  [][ /\ (sub.kind = "quick" /\ sub'.pc = "idle") => postReq # NoRequest
      /\ postReq # NoRequest => postReq' \in {postReq, NoRequest} ]_vars

\* C2 (amended): a valid quick submission of an authenticated user issues
\* at most one POST, to the quick-check endpoint: at once when a token is
\* cached, after the on-demand token GET otherwise, and none when that GET
\* fails.  The body carries business_name, business_lat and business_lng
\* of the submitted form, target_domain only when it is not blank, and
\* never an advanced field.
C2_QuickPost ==
  [][ /\ (ValidAuthenticatedQuickSubmit /\ csrfToken # NoToken) =>
            /\ PostIssued
            /\ postReq'.url = QuickCheckUrl
            /\ IsQuickBodyOf(postReq'.body, formData)
      /\ (ValidAuthenticatedQuickSubmit /\ csrfToken = NoToken) =>
            /\ ~PostIssued
            /\ TokenFetchIssued
      /\ (sub.pc = "awaitToken" /\ sub'.pc # "awaitToken") =>
            \/ /\ PostIssued
               /\ postReq'.url = QuickCheckUrl
               /\ IsQuickBodyOf(postReq'.body, sub.form)
            \/ /\ postReq' = NoRequest
               /\ sub'.pc = "idle"
               /\ error' = MsgToken
      /\ postReq # NoRequest => postReq' \in {postReq, NoRequest} ]_vars

C2_Witness ==
  /\ sub.pc = "awaitPost" /\ sub.kind = "quick"
  /\ postReq.url = QuickCheckUrl
  /\ "target_domain" \notin DOMAIN postReq.body
  /\ formData.targetDomain = EmptyStr
  /\ formData.gridSize = JsStr(<<"4">>)

HasGridSize4(r) ==
  "grid_parameters" \in DOMAIN r /\ r.grid_parameters.size = JsNum(40)

\* C3 as stated: with grid_parameters.size = 4 the rendered rank grid has
\* exactly 16 cells, however many entries rank_map has.
C3_SixteenCells ==
  (rendered # NotRendered /\ results # NullValue /\ HasGridSize4(results)) =>
     /\ rendered.live.grid # NoView
     /\ Len(rendered.live.grid.cells) = 16

\* C3 (amended): the rank grid has grid_parameters.size columns (3 when the
\* size is missing) and one cell for each entry of rank_map, so as many
\* cells as rank_map is long, whatever the size; without an entry in
\* rank_map no grid is rendered.
C3_OneCellPerEntry ==
  (rendered # NotRendered /\ results # NullValue) =>
     IF "rank_map" \in DOMAIN results /\ results.rank_map # <<>>
     THEN /\ Len(rendered.live.grid.cells) = Len(results.rank_map)
          /\ rendered.live.grid.columns =
               (IF "grid_parameters" \in DOMAIN results
                   /\ results.grid_parameters.size # JsNum(0)
                THEN results.grid_parameters.size ELSE JsNum(30))
     ELSE rendered.live.grid = NoView

C3_Witness ==
  /\ rendered # NotRendered
  /\ results # NullValue
  /\ HasGridSize4(results)
  /\ Len(results.rank_map) = 3
  /\ Len(rendered.live.grid.cells) = 3
  /\ rendered.live.grid.columns = JsNum(40)

IsPendingCell(cell) == cell.status = "pending" /\ cell.rank = NullValue

ShownAsPending(view) ==
  view.rankText = Placeholder /\ view.statusText = "pending"

\* C4: every rank_map entry with status "pending" and rank null is shown,
\* in the live grid and in the history grid, as a cell whose rank is the
\* placeholder and whose status text is "pending".
C4_PendingCells ==
  rendered # NotRendered =>
    /\ (results # NullValue /\ "rank_map" \in DOMAIN results) =>
         \A i \in 1..Len(results.rank_map) :
           IsPendingCell(results.rank_map[i]) =>
             /\ rendered.live.grid # NoView
             /\ ShownAsPending(rendered.live.grid.cells[i])
    /\ (history # <<>> /\ "rank_map" \in DOMAIN history[1]) =>
         \A i \in 1..Len(history[1].rank_map) :
           IsPendingCell(history[1].rank_map[i]) =>
             /\ rendered.saved # NoView
             /\ ShownAsPending(rendered.saved.grid.cells[i])

C4_Witness ==
  /\ rendered # NotRendered
  /\ results # NullValue /\ "rank_map" \in DOMAIN results
  /\ Len(results.rank_map) = 3
  /\ IsPendingCell(results.rank_map[1]) /\ IsPendingCell(results.rank_map[3])
  /\ ShownAsPending(rendered.live.grid.cells[3])
  /\ history # <<>> /\ "rank_map" \in DOMAIN history[1]
  /\ Len(history[1].rank_map) = 3
  /\ IsPendingCell(history[1].rank_map[3])
  /\ ShownAsPending(rendered.saved.grid.cells[3])

NameChanged == formData'.businessName # formData.businessName

CheckAuthIssued == checkAuthInFlight' > checkAuthInFlight
LogoutCallSettled == logoutCalls' < logoutCalls

\* C6: when a logout call settles, with either outcome, localStorage and
\* sessionStorage are empty; a check-auth GET is never issued while
\* logoutInProgress is true; and after handleLogout a check-auth GET is only
\* issued once the logout call has settled and the 1000 ms that start then
\* have passed.
C6_LogoutWindow ==
  [][ /\ LogoutCallSettled => (localStorage' = EmptyStorage /\ sessionStorage' = {})
      /\ CheckAuthIssued =>
           /\ ~logoutInProgress'
           /\ logoutCalls = 0
           /\ windowLeft = 0 ]_vars

\* C7: a ranking POST (quick or advanced) is only sent once a token has
\* been obtained, and a valid submission of an authenticated user made
\* while no token is cached first issues a token GET and awaits it.
C7_TokenBeforePost ==
  [][ /\ PostIssued => axiosCsrfHeader' # NoToken
      /\ (SubmitStep /\ ~HasEmptyRequiredField /\ isAuthenticated
            /\ csrfToken = NoToken) =>
           (TokenFetchIssued /\ ~PostIssued) ]_vars

\* C8 as stated: no submission issues a token GET once one has succeeded,
\* and counting the mount-time GET at most one token GET is issued while no
\* token is cached.
C8_SingleFetch ==
  [][ TokenFetchIssued =>
        /\ axiosCsrfHeader = NoToken
        /\ tokenFetchesUncached' <= 1 ]_vars

\* C8 (amended): no submission issues a token GET once one has succeeded
\* in the component; a submission issues at most one token GET, and only
\* when no token is cached, also when the mount-time GET is still in
\* flight or has failed (the GET is then issued again).
C8_TokenCached ==
  [][ /\ TokenFetchIssued =>
           /\ axiosCsrfHeader = NoToken
           /\ csrfToken = NoToken
           /\ tokenFetchesUncached' = tokenFetchesUncached + 1
      /\ ~TokenFetchIssued => tokenFetchesUncached' = tokenFetchesUncached
      /\ (SubmitStep /\ axiosCsrfHeader # NoToken) => ~TokenFetchIssued
      /\ sub.pc = "awaitToken" => sub'.pc \in {"awaitToken", "awaitPost", "idle"} ]_vars

C8_Witness ==
  /\ csrfToken = "tokM"
  /\ sub.pc = "awaitPost" /\ sub.kind = "quick"
  /\ tokenFetchesUncached = 1
  /\ results = NullValue /\ error = "" /\ loading

\* A step in which the on-demand token GET settles without a token being
\* stored.
TokenFetchFailed ==
  /\ sub.pc = "awaitToken"
  /\ sub'.pc # "awaitToken"
  /\ axiosCsrfHeader' \notin OnDemandTokens

\* C9: when the on-demand token GET fails (rejected, or answered without a
\* token), the submission ends there: no ranking POST is sent, the error
\* asks the user to refresh the page, and loading is false again.
C9_TokenFailureAborts ==
  [][ TokenFetchFailed =>
        /\ ~PostIssued
        /\ postReq' = NoRequest
        /\ sub'.pc = "idle"
        /\ error' = MsgToken
        /\ loading' = FALSE ]_vars

C9_Witness ==
  /\ error = MsgToken
  /\ ~loading
  /\ sub.pc = "idle"
  /\ postReq = NoRequest
  /\ csrfToken = NoToken
  /\ ~mountTokenFetch

\* C10: every ranking POST in flight carries the session credentials and a
\* non-empty X-CSRFToken header.
C10_PostCarriesToken ==
  postReq # NoRequest =>
    /\ postReq.url \in {QuickCheckUrl, GridCheckUrl}
    /\ postReq.withCredentials
    /\ postReq.xCsrfToken # NoToken

\* The error line of the form (630-635) is part of the component: it is on
\* screen when the component is rendered and holds a non-empty error.
ErrorShown == Mounted /\ error # ""

HistoryFetchFailed ==
  \E p \in DOMAIN histInFlight : \E res \in HistoryResults(p) :
    HistoryResponse(p, FALSE, res)

\* A step in which an operation of the component fails: the validation,
\* the authentication test, the on-demand token GET, the ranking POST or a
\* history GET.
FailureStep ==
  \/ \E tab \in {"quick", "advanced"} : SubmitInvalid(tab)
  \/ \E tab \in {"quick", "advanced"} : SubmitUnauthenticated(tab)
  \/ QuickTokenFailed
  \/ \E e \in ErrShapes : PostFailed(e)
  \/ HistoryFetchFailed

\* C12: every failure of an operation (validation, unauthenticated submit,
\* token fetch, ranking request, history fetch) ends in a state where a
\* non-empty error message is shown inline and loading is false.
C12_EveryFailureShown ==
  [][ FailureStep => (ErrorShown' /\ loading' = FALSE) ]_vars

\* A step in which the ranking POST settles.
PostSettled ==
  \/ \E d \in Payloads : PostSucceeded(d)
  \/ \E e \in ErrShapes : PostFailed(e)

\* C13: a submission causes at most one ranking POST and nothing is sent
\* again by the client itself.  A POST is issued only by a step of a submit
\* handler (the submit event, or the arrival of the token the handler
\* awaits); a handler that has issued its POST only waits for it; when the
\* POST settles, with a failure or with any result (pending cells
\* included), the handler ends with no request in flight; and a handler
\* only starts with a submit event.
C13_NoRetry ==
  [][ /\ PostIssued <=> (sub.pc # "awaitPost" /\ sub'.pc = "awaitPost")
      /\ PostIssued => (SubmitStep \/ sub.pc = "awaitToken")
      /\ (sub.pc = "idle" /\ sub'.pc # "idle") => SubmitStep
      /\ sub.pc = "awaitToken" => sub'.pc \in {"awaitToken", "awaitPost", "idle"}
      /\ sub.pc = "awaitPost" =>
           \/ sub' = sub /\ postReq' = postReq
           \/ sub' = IdleSub /\ postReq' = NoRequest
      /\ PostSettled => (sub' = IdleSub /\ postReq' = NoRequest) ]_vars

C13_Witness ==
  /\ results = ResultPartial
  /\ sub = IdleSub
  /\ postReq = NoRequest
  /\ ~loading
  /\ error = ""

\* The error text carried by the body of a rejected response: its message
\* field, else its error field ("" when the body has neither).
ResponseErrorText(e) == OrElse(e.message, e.error)

\* C14: when a ranking POST (quick or advanced) fails with a response body
\* that carries an error text, the error shown is that text (as it is, or
\* after the "Error: " prefix of the quick check); the generic message is
\* only shown when the body carries none.
C14_ErrorTextShown ==
  [][ \A e \in ErrShapes :
        (PostFailed(e) /\ ResponseErrorText(e) # "") =>
          /\ ErrorShown'
          /\ error' \in {ResponseErrorText(e), "Error: " \o ResponseErrorText(e)} ]_vars

\* A step of a submission: a submit handler starts, or a running one
\* moves on (token arrived or failed, POST succeeded or failed).
SubmissionStep == SubmitStep \/ sub' # sub

\* A step of a history fetch: a history GET is issued or settles.
HistoryStep == histInFlight' # histInFlight

\* C15: live results and history do not interact.  No step of a submission
\* (start, token, success, failure) changes the history held or the
\* history GETs in flight, and no step of a history fetch (issue, success,
\* failure) changes results, error, loading or the running submission;
\* the history held only changes when a history GET settles.
C15_Independent ==
  [][ /\ SubmissionStep => (history' = history /\ histInFlight' = histInFlight)
      /\ HistoryStep =>
           /\ results' = results
           /\ error' = error
           /\ loading' = loading
           /\ sub' = sub
           /\ postReq' = postReq
      /\ history' # history => BagCardinality(histInFlight') < BagCardinality(histInFlight) ]_vars

C15_Witness ==
  /\ history = <<HistoryEntry(JsStr(PizzaPlace))>>
  /\ results = ResultPartial
  /\ sub = IdleSub
  /\ error = ""
  /\ histInFlight = EmptyBag

ProtectedPaths == {"/dashboard", "/local-ranking-grid"}

ProtectedViews == {Component("Dashboard"), Component("LocalRankingGrid")}

\* C18: the element of /dashboard and of /local-ranking-grid is the
\* component when isAuthenticated is true and logoutInProgress is false,
\* and a redirect to /login otherwise; the element of /login and of the
\* three signup routes is a redirect to /dashboard for an authenticated
\* user; so a protected view is only on screen for an authenticated user
\* with no logout in progress.
C18_ProtectedRoutes ==
  /\ \A path \in ProtectedPaths :
       LET el == RouteElement(path, isAuthenticated, logoutInProgress)
       IN IF isAuthenticated /\ ~logoutInProgress
          THEN el \in ProtectedViews
          ELSE el = NavigateTo("/login")
  /\ \A path \in {"/login"} \cup SignupPaths :
       LET el == RouteElement(path, isAuthenticated, logoutInProgress)
       IN IF isAuthenticated THEN el = NavigateTo("/dashboard")
          ELSE el.kind = "component"
  /\ AppView \in ProtectedViews => (isAuthenticated /\ ~logoutInProgress)
  /\ (location = "/dashboard" /\ AppView.kind = "component") =>
       AppView \in {Component("Dashboard"), Component("Loading")}

C18_Witness ==
  /\ ~appLoading
  /\ isAuthenticated
  /\ logoutInProgress
  /\ location = "/local-ranking-grid"
  /\ AppView = NavigateTo("/login")

StoredEmail == GetItem(localStorage, "signupEmail")
StoredPassword == GetItem(localStorage, "signupPassword")

\* The page each signup path shows, and the values its state holds.
SignupPageShown ==
  /\ location = "/signup/email" => signup.page = "email"
  /\ location = "/signup/password" =>
       /\ signup.page = "password"
       /\ ValidateEmail(signup.email)
  /\ location = "/signup/pricing" =>
       /\ signup.page = "pricing"
       /\ ValidateEmail(signup.email)
       /\ ValidatePassword(signup.password)

\* A step after which another signup page is on screen, or the same page
\* has been mounted again.
SignupPageMounted(page) ==
  /\ signup'.page = page
  /\ \/ signup.page # page
     \/ \E path \in SignupPaths : OpenPage(path)

SignupPostIssued == BagCardinality(signupReqs') > BagCardinality(signupReqs)

\* C16: the signup steps run in the order email, password, pricing.  The
\* password page is only mounted when a signup email is stored and the
\* pricing page only when a signup email and a signup password are stored,
\* and they hold the stored values; a navigation to either path without
\* these ends on the email page.  The stored email is only written by the
\* email page and passed validateEmail, the stored password only by the
\* password page and passed validatePassword.  A signup POST is only sent
\* from the pricing page and carries an email and a password that passed
\* both validations.
C16_SignupOrder ==
  /\ []SignupPageShown
  /\ [][ /\ \A path \in {"/signup/password", "/signup/pricing"} :
              (OpenPage(path) /\ StoredEmail = <<>>) =>
                 (location' = "/signup/email" /\ signup'.page = "email")
         /\ (OpenPage("/signup/pricing") /\ StoredPassword = <<>>) =>
              (location' = "/signup/email" /\ signup'.page = "email")
         /\ SignupPageMounted("password") =>
              (StoredEmail' # <<>> /\ signup'.email = StoredEmail')
         /\ SignupPageMounted("pricing") =>
              /\ StoredEmail' # <<>> /\ signup'.email = StoredEmail'
              /\ StoredPassword' # <<>> /\ signup'.password = StoredPassword'
         /\ StoredEmail' \notin {StoredEmail, <<>>} =>
              (signup.page = "email" /\ ValidateEmail(StoredEmail'))
         /\ StoredPassword' \notin {StoredPassword, <<>>} =>
              (signup.page = "password" /\ ValidatePassword(StoredPassword'))
         /\ SignupPostIssued => signup.page = "pricing"
         /\ \A r \in DOMAIN signupReqs' :
              /\ r.url = SignupUrl
              /\ ValidateEmail(r.body.email)
              /\ ValidatePassword(r.body.password) ]_vars

C16_Witness ==
  /\ location = "/signup/pricing"
  /\ signup.page = "pricing"
  /\ signup.loading
  /\ \E r \in DOMAIN signupReqs :
       /\ r.live
       /\ r.body.email = EmailOk
       /\ r.body.password = PasswordOther
       /\ r.body.pricing_plan = "pro"

\* C17: the submit of the password page stores the password and navigates
\* to the pricing path when, and only when, the password has at least 6
\* characters and equals the confirmation (the pricing page then sends the
\* user back to the email page if the stored email has gone meanwhile); in
\* every other case it shows an error, writes nothing to storage and stays
\* on the password page.
C17_PasswordStep ==
  [][ SignupPasswordSubmit =>
        IF Len(signup.password) >= 6 /\ signup.password = signup.confirmPassword
        THEN /\ localStorage' =
                  SetItem(localStorage, "signupPassword", signup.password)
             /\ location' = IF StoredEmail # <<>> THEN "/signup/pricing"
                            ELSE "/signup/email"
             /\ signup'.page # "password"
        ELSE /\ signup'.error # ""
             /\ localStorage' = localStorage
             /\ location' = location
             /\ signup'.page = "password" ]_vars

C17_Witness ==
  /\ location = "/signup/password"
  /\ signup.page = "password"
  /\ signup.password = PasswordOk
  /\ signup.confirmPassword = PasswordOther
  /\ signup.error = MsgPasswordMismatch
  /\ StoredPassword = <<>>

\* C19: every grid-check body in flight has grid_size an integer in 2..5
\* and radius_km a number within 0.1..50, whatever edits came before the
\* submission.
C19_GridBodyInRange ==
  (postReq # NoRequest /\ postReq.url = GridCheckUrl) =>
    /\ postReq.body.grid_size.t = "number"
    /\ postReq.body.grid_size.n \in {20, 30, 40, 50}
    /\ postReq.body.radius_km.t = "number"
    /\ postReq.body.radius_km.n >= RadiusMin
    /\ postReq.body.radius_km.n <= RadiusMax

\* C20: a response for an earlier business name never overwrites the
\* response for a later one: when the history GET of a name that is not
\* the current name succeeds, for an authenticated user, while no GET for
\* the current name is in flight any more, the history shown does not
\* change.
C20_NoStaleOverwrite ==
  [][ \A p \in DOMAIN histInFlight : \A res \in HistoryResults(p) :
        ( /\ HistoryResponse(p, TRUE, res)
          /\ isAuthenticated
          /\ p # EmptyStr
          /\ formData.businessName # EmptyStr
          /\ p # formData.businessName
          /\ ~BagIn(formData.businessName, histInFlight) )
        => history' = history ]_vars

\* The ranking POSTs in flight: the one of the instance on screen and the
\* ones of unmounted instances.
RankingPostsInFlight ==
  (IF postReq # NoRequest THEN 1 ELSE 0)
  + BagCardinality([d \in {x \in DOMAIN detached : x.pc = "awaitPost"} |->
                      detached[d]])

\* C21: at most one ranking POST (quick or advanced) is in flight at any
\* time.
C21_OneInFlight == RankingPostsInFlight <= 1

\* A step in which a submission that passed validation settles: the
\* handler returns at the authentication test, or the request it awaits
\* (token GET, ranking POST) ends it.
SubmissionSettled ==
  \/ \E tab \in {"quick", "advanced"} : SubmitUnauthenticated(tab)
  \/ sub.pc # "idle" /\ sub'.pc = "idle"

\* C22: when a submission that passed validation settles, loading is false
\* and either results is non-null and error is empty, or results is null
\* and error is non-empty; and loading is true exactly while a submission
\* that passed validation has started and not yet settled.
C22_SettledOutcome ==
  /\ [](loading <=> sub.pc # "idle")
  /\ [][ SubmissionSettled =>
           /\ loading' = FALSE
           /\ \/ results' # NullValue /\ error' = ""
              \/ results' = NullValue /\ error' # "" ]_vars

C22_Witness ==
  /\ activeTab = "advanced"
  /\ sub = IdleSub
  /\ ~loading
  /\ results = NullValue
  /\ error = "Failed to perform grid check"
  /\ csrfToken = "tokM"

\* C23: a submission that fails validation changes only the error message:
\* results, loading, history, the cached token, the form data and the
\* requests in flight are left as they are.  A submission that passes
\* validation clears the previous results and, for an authenticated user,
\* the previous error in the step that issues its first request, and both
\* are still clear when its ranking POST is issued.
C23_SubmitFrame ==
  [][ /\ (SubmitStep /\ HasEmptyRequiredField) =>
           /\ error' = MsgRequired
           /\ UNCHANGED <<results, loading, history, csrfToken,
                          axiosCsrfHeader, formData, sub, postReq,
                          histInFlight, mountTokenFetch, activeTab, location>>
      /\ (SubmitStep /\ ~HasEmptyRequiredField) =>
           /\ results' = NullValue
           /\ error' = IF isAuthenticated THEN "" ELSE MsgLogin
           /\ formData' = formData
      /\ (TokenFetchIssued \/ PostIssued) =>
           (results' = NullValue /\ error' = "" /\ loading') ]_vars

C23_Witness ==
  /\ results = ResultComplete
  /\ error = MsgRequired
  /\ ~loading
  /\ sub = IdleSub
  /\ formData.businessLng = EmptyStr
  /\ formData.businessName # EmptyStr

\* C24: a latitude or longitude entered as a parseable number, the value
\* 0 included, is held by the form as that number: the field then passes
\* the validation of the submit handlers, and the coordinate a ranking POST
\* would carry for it is the number entered.
C24_EnteredNumberKept ==
  [][ \A name \in {"businessLat", "businessLng"} : \A v \in NumberInputs :
        (HandleInputChange(name, v, "number") /\ ParseFloatStr(v) # JsNaN) =>
           /\ formData'[name] # EmptyStr
           /\ ~MissingRequired([formData' EXCEPT !.businessName = JsStr(PizzaPlace),
                                                 !.businessLat = formData'[name],
                                                 !.businessLng = formData'[name]])
           /\ ParseFloat(formData'[name]) = ParseFloatStr(v) ]_vars

\* C25: in every reachable state of App, logoutInProgress = true implies
\* isAuthenticated = false.
C25_LogoutImpliesUnauthenticated == logoutInProgress => ~isAuthenticated

\* A step in which a login or a signup succeeds.
LoginOrSignupSucceeded ==
  \/ \E u \in Users : HandleLogin(u)
  \/ \E req \in DOMAIN signupReqs, u \in Users : SignupSucceeded(req, u)

\* C26: after a logout the user stays unauthenticated until a later login
\* or signup succeeds.  Once App has left its loading screen (the Logout
\* button is not rendered before), a check-auth GET is only issued at the
\* end of a logout window, so from then on isAuthenticated only becomes
\* true in a step in which a login or a signup succeeds.
C26_StaysLoggedOut ==
  [][ (~appLoading /\ ~isAuthenticated /\ isAuthenticated') =>
        LoginOrSignupSucceeded ]_vars

\* C27: in every reachable state of App, isAuthenticated = false implies
\* user = null, and a step that sets isAuthenticated to false leaves user
\* null.
C27_UnauthenticatedNoUser ==
  /\ [](~isAuthenticated => user = NoUser)
  /\ [][ (isAuthenticated /\ ~isAuthenticated') => user' = NoUser ]_vars

C27_Witness ==
  /\ ~appLoading
  /\ ~isAuthenticated
  /\ user = NoUser
  /\ logoutInProgress
  /\ logoutCalls = 1
  /\ checkAuthInFlight = 1

\* What a successful signup does, and what every failed signup leaves alone.
SignupSuccessEffect(u) ==
  /\ StoredEmail' = <<>>
  /\ StoredPassword' = <<>>
  /\ isAuthenticated'
  /\ user' = u
  /\ location' = "/dashboard"

SignupFailureFrame ==
  /\ localStorage' = localStorage
  /\ isAuthenticated' = isAuthenticated
  /\ user' = user
  /\ location' = location

====
